---- MODULE Spec2Model ----
(***************************************************************************)
(* Model of the ZenLedger local ledger store (money-app): the storage      *)
(* service over localStorage (entries, categories, backup export/import),  *)
(* the App observer of the 'zenledger-update' event and the entry form's   *)
(* save handler.  Every operation runs to completion in one synchronous    *)
(* turn, so each is one action.  A localStorage.setItem call may throw     *)
(* (quota exceeded); which calls of an operation throw is an input.        *)
(* call and outcome hold what the operation that just ran was given and    *)
(* what it did; they are cleared when control is back in the event loop,   *)
(* from where the next operation starts.  stats is the statistics page:    *)
(* its month, its tab and what it last rendered from App's entries.        *)
(***************************************************************************)
EXTENDS Integers, Sequences, FiniteSets, TLC

VARIABLES localStorage, appEntries, call, outcome, stats

vars == <<localStorage, appEntries, call, outcome, stats>>

(*************************** bounds of the model ***************************)
\* createEntry of a new id is explored while fewer entries are stored
MaxEntries == 2
\* createCategory is explored while fewer non-default categories are stored
MaxCustom == 2
\* longest entries / categories array of an imported backup document
MaxDocLen == 2
\* listeners registered for the 'zenledger-update' event
NumListeners == 2
\* longest entries list handed to the statistics page directly
MaxStatsLen == 3
\* most categories of the lists that hold one entry per category
MaxGroups == 11
\* how far the statistics page is taken back and ahead of the current month
MonthsBack == 2
MonthsAhead == 1

(******************************* constants *********************************)
APP_NAME == "ZenLedger"
STORAGE_KEY == "zenledger_data"
CATEGORY_STORAGE_KEY == "zenledger_categories"
DRAFT_KEY == "zenledger_draft_entry"

Keys == {STORAGE_KEY, CATEGORY_STORAGE_KEY, DRAFT_KEY}

COLORS ==
  << "#6366f1", "#ec4899", "#10b981", "#f59e0b", "#3b82f6",
     "#8b5cf6", "#ef4444", "#64748b", "#14b8a6", "#f97316" >>

\* The category names are Chinese in the source; they are written here in
\* pinyin because the module is ASCII.  COLORS[i] of the source is
\* COLORS[i + 1] here (sequences are 1-based).
DEFAULT_EXPENSE_CATEGORIES ==
  << [id |-> "1", name |-> "canyin",  type |-> "expense", color |-> COLORS[1]],
     [id |-> "2", name |-> "jiaotong", type |-> "expense", color |-> COLORS[2]],
     [id |-> "3", name |-> "juzhu",   type |-> "expense", color |-> COLORS[3]],
     [id |-> "4", name |-> "shuidian", type |-> "expense", color |-> COLORS[4]],
     [id |-> "5", name |-> "yule",    type |-> "expense", color |-> COLORS[5]],
     [id |-> "6", name |-> "yiliao",  type |-> "expense", color |-> COLORS[6]],
     [id |-> "7", name |-> "gouwu",   type |-> "expense", color |-> COLORS[7]],
     [id |-> "8", name |-> "qita",    type |-> "expense", color |-> COLORS[8]] >>

INCOME_CATEGORIES == << "gongzi", "jianzhi", "lijin", "licai", "qita" >>

\* the label handleSave gives every note
NOTE_CATEGORY == "biji"

(***************************** JavaScript values ***************************)
\* A JS number is finite, NaN or Infinity; JSON adds null.
Num(n) == [k |-> "number", v |-> n]
NaN == [k |-> "nan", v |-> 0]
Infinity == [k |-> "infinity", v |-> 0]
Null == [k |-> "null", v |-> 0]

\* JSON.stringify writes NaN and Infinity as null
JSONNumber(x) == IF x.k \in {"nan", "infinity"} THEN Null ELSE x

\* JSON.parse(JSON.stringify(o)) of one element of a stored array
JSONValue(o) ==
  IF "amount" \in DOMAIN o THEN [o EXCEPT !.amount = JSONNumber(@)] ELSE o

(****************************** localStorage *******************************)
\* A key is absent, or holds a text: the JSON text of a value, or a text
\* that JSON.parse rejects.
Absent == [present |-> FALSE, valid |-> FALSE, val |-> <<>>]
Text(v) == [present |-> TRUE, valid |-> TRUE, val |-> v]
Garbage == [present |-> TRUE, valid |-> FALSE, val |-> <<"{">>]

\* the listeners of 'zenledger-update': App's loadData is listener 1
Listeners == 1..NumListeners

\* JSON.stringify of an array: the text that parses back to the array of the
\* elements' JSON values
JSONStringify(arr) == Text([i \in DOMAIN arr |-> JSONValue(arr[i])])

\* The run of one operation: the storage, the App observer's list, the
\* effects so far, the number of setItem calls made, the set of setItem
\* calls (by ordinal) that throw, whether one threw, whether an exception
\* is propagating, the value returned (ret a scalar, val a collection) and
\* how often each listener of 'zenledger-update' was called.
StartAt(ls, app, faults) ==
  [ls |-> ls, app |-> app, trace |-> <<>>, nw |-> 0,
   faults |-> faults, failed |-> FALSE, threw |-> FALSE, ret |-> "undefined",
   val |-> <<>>, recv |-> [l \in Listeners |-> 0]]

Start(faults) == StartAt(localStorage, appEntries, faults)

\* localStorage.setItem(key, text): throws when the quota is exceeded
setItem(m, key, text) ==
  IF (m.nw + 1) \in m.faults
  THEN [m EXCEPT !.nw = @ + 1, !.failed = TRUE, !.threw = TRUE]
  ELSE [m EXCEPT !.nw = @ + 1, !.ls[key] = text,
                 !.trace = Append(@, <<"setItem", key>>)]

\* localStorage.removeItem(key)
removeItem(m, key) ==
  [m EXCEPT !.ls[key] = Absent, !.trace = Append(@, <<"removeItem", key>>)]

alert(m) == [m EXCEPT !.trace = Append(@, <<"alert", "">>)]

\* a catch clause: the exception stops propagating
catch(m) == [m EXCEPT !.threw = FALSE]

return(m, v) == [m EXCEPT !.ret = v]

\* return of a collection
returnList(m, v) == [m EXCEPT !.val = v]

\* JSON.parse(data): throws on a text that is not JSON
JSONParse(m, data) == IF data.valid THEN m ELSE [m EXCEPT !.threw = TRUE]

(******************************* entry CRUD ********************************)
\* getEntries without its try/catch: the SyntaxError of JSON.parse propagates
getEntriesCall_noCatch(m) ==
  LET data == m.ls[STORAGE_KEY]
  IN  IF ~data.present THEN returnList(m, <<>>)
      ELSE LET m1 == JSONParse(m, data)
           IN  IF m1.threw THEN m1
               ELSE returnList(m1, data.val)

\* one call of getEntries as a run: the exception of JSON.parse is caught
getEntriesCall(m) ==
  LET data == m.ls[STORAGE_KEY]
  IN  IF ~data.present THEN returnList(m, <<>>)
      ELSE LET m1 == JSONParse(m, data)
           IN  IF m1.threw THEN returnList(catch(m1), <<>>)
               ELSE returnList(m1, data.val)

\* what getEntries() returns over the storage ls
getEntries(ls) == getEntriesCall(StartAt(ls, <<>>, {})).val

\* Array.prototype.findIndex(e => e.id === id): 0-based, -1 when none
findIndex(arr, id) ==
  IF \E i \in DOMAIN arr : arr[i].id = id
  THEN (CHOOSE i \in DOMAIN arr :
          arr[i].id = id /\ \A j \in 1..(i - 1) : arr[j].id # id) - 1
  ELSE -1

\* getEntry: entries.find(e => e.id === id); <<>> stands for undefined
getEntry(ls, id) ==
  LET entries == getEntries(ls)
      i == findIndex(entries, id)
  IN  IF i = -1 THEN <<>> ELSE <<entries[i + 1]>>

\* dispatchEvent that stops after the first listener
dispatchEvent_first(m, name) ==
  LET m1 == [m EXCEPT !.trace = Append(@, <<"dispatchEvent", name>>)]
  IN  IF name = "zenledger-update"
      THEN [m1 EXCEPT !.app = getEntries(m1.ls), !.recv[1] = @ + 1]
      ELSE m1

\* window.dispatchEvent(new Event(name)): runs the listeners synchronously,
\* each once; App listens to 'zenledger-update' and re-reads the entries;
\* nothing listens to 'zenledger-categories-update'
dispatchEvent(m, name) ==
  LET m1 == [m EXCEPT !.trace = Append(@, <<"dispatchEvent", name>>)]
  IN  IF name = "zenledger-update"
      THEN [m1 EXCEPT !.app = getEntries(m1.ls),
                      !.recv = [l \in Listeners |-> @[l] + 1]]
      ELSE m1

\* saveEntry without the lookup: always prepends
saveEntry_prepend(m, entry) ==
  LET entries == getEntries(m.ls)
      m1 == setItem(m, STORAGE_KEY, JSONStringify(<<entry>> \o entries))
  IN  IF m1.threw THEN alert(catch(m1))
      ELSE dispatchEvent(m1, "zenledger-update")

\* saveEntry that raises the event outside the try, also after a failed write
saveEntry_notify(m, entry) ==
  LET entries == getEntries(m.ls)
      existingIndex == findIndex(entries, entry.id)
      newEntries == IF existingIndex > -1
                    THEN [entries EXCEPT ![existingIndex + 1] = entry]
                    ELSE <<entry>> \o entries
      m1 == setItem(m, STORAGE_KEY, JSONStringify(newEntries))
  IN  dispatchEvent(IF m1.threw THEN alert(catch(m1)) ELSE m1,
                    "zenledger-update")

\* saveEntry that puts a new entry at the end
saveEntry_append(m, entry) ==
  LET entries == getEntries(m.ls)
      existingIndex == findIndex(entries, entry.id)
      newEntries == IF existingIndex > -1
                    THEN [entries EXCEPT ![existingIndex + 1] = entry]
                    ELSE entries \o <<entry>>
      m1 == setItem(m, STORAGE_KEY, JSONStringify(newEntries))
  IN  IF m1.threw THEN alert(catch(m1))
      ELSE dispatchEvent(m1, "zenledger-update")

saveEntry(m, entry) ==
  LET entries == getEntries(m.ls)
      existingIndex == findIndex(entries, entry.id)
      newEntries == IF existingIndex > -1
                    THEN [entries EXCEPT ![existingIndex + 1] = entry]
                    ELSE <<entry>> \o entries
      m1 == setItem(m, STORAGE_KEY, JSONStringify(newEntries))
  IN  IF m1.threw THEN alert(catch(m1))
      ELSE dispatchEvent(m1, "zenledger-update")

\* updateEntry that inserts an entry whose id is not stored
updateEntry_upsert(m, updatedEntry) ==
  LET entries == getEntries(m.ls)
      index == findIndex(entries, updatedEntry.id)
      m1 == setItem(m, STORAGE_KEY,
              JSONStringify(IF index # -1
                            THEN [entries EXCEPT ![index + 1] = updatedEntry]
                            ELSE <<updatedEntry>> \o entries))
  IN  IF m1.threw THEN alert(catch(m1))
      ELSE dispatchEvent(m1, "zenledger-update")

updateEntry(m, updatedEntry) ==
  LET entries == getEntries(m.ls)
      index == findIndex(entries, updatedEntry.id)
  IN  IF index # -1
      THEN LET m1 == setItem(m, STORAGE_KEY,
                       JSONStringify([entries EXCEPT ![index + 1] = updatedEntry]))
           IN  IF m1.threw THEN alert(catch(m1))
               ELSE dispatchEvent(m1, "zenledger-update")
      ELSE m

\* entries.splice(index, 1)
splice(arr, index) ==
  [i \in 1..(Len(arr) - 1) |-> IF i <= index THEN arr[i] ELSE arr[i + 1]]

\* deleteEntry that writes and notifies whether or not the id was found
deleteEntry_rewrite(m, id) ==
  IF id = "" THEN m
  ELSE LET entries == getEntries(m.ls)
           index == findIndex(entries, id)
           m1 == setItem(m, STORAGE_KEY,
                   JSONStringify(IF index # -1 THEN splice(entries, index)
                                 ELSE entries))
       IN  IF m1.threw THEN m1
           ELSE dispatchEvent(m1, "zenledger-update")

deleteEntry(m, id) ==
  IF id = "" THEN m
  ELSE LET entries == getEntries(m.ls)
           index == findIndex(entries, id)
       IN  IF index # -1
           THEN LET m1 == setItem(m, STORAGE_KEY,
                            JSONStringify(splice(entries, index)))
                IN  IF m1.threw THEN m1      \* not caught: propagates
                    ELSE dispatchEvent(m1, "zenledger-update")
           ELSE m

(****************************** category CRUD *****************************)
\* getCategories that repairs an unparseable key by writing the defaults
getCategories_reseed(m) ==
  LET data == m.ls[CATEGORY_STORAGE_KEY]
  IN  IF data.present /\ data.valid
      THEN [m |-> m, cats |-> data.val]
      ELSE LET m1 == setItem(m, CATEGORY_STORAGE_KEY,
                             JSONStringify(DEFAULT_EXPENSE_CATEGORIES))
           IN  [m |-> catch(m1), cats |-> DEFAULT_EXPENSE_CATEGORIES]

\* getCategories that returns the defaults of an absent key without writing
getCategories_noSeed(m) ==
  LET data == m.ls[CATEGORY_STORAGE_KEY]
  IN  IF data.present /\ data.valid
      THEN [m |-> m, cats |-> data.val]
      ELSE [m |-> m, cats |-> DEFAULT_EXPENSE_CATEGORIES]

\* getCategories that seeds again when the stored list lacks a default
getCategories_refill(m) ==
  LET data == m.ls[CATEGORY_STORAGE_KEY]
      complete == /\ data.present
                  /\ data.valid
                  /\ \A i \in DOMAIN DEFAULT_EXPENSE_CATEGORIES :
                        \E j \in DOMAIN data.val :
                           data.val[j] = DEFAULT_EXPENSE_CATEGORIES[i]
  IN  IF complete THEN [m |-> m, cats |-> data.val]
      ELSE IF data.present /\ ~data.valid
      THEN [m |-> m, cats |-> DEFAULT_EXPENSE_CATEGORIES]
      ELSE LET m1 == setItem(m, CATEGORY_STORAGE_KEY,
                             JSONStringify(DEFAULT_EXPENSE_CATEGORIES))
           IN  [m |-> catch(m1), cats |-> DEFAULT_EXPENSE_CATEGORIES]

\* Returns the run (the lazy seed is a setItem) and the categories read.
getCategories(m) ==
  LET data == m.ls[CATEGORY_STORAGE_KEY]
  IN  IF data.present
      THEN IF data.valid
           THEN [m |-> m, cats |-> data.val]
           ELSE [m |-> m, cats |-> DEFAULT_EXPENSE_CATEGORIES]  \* parse throws
      ELSE LET m1 == setItem(m, CATEGORY_STORAGE_KEY,
                             JSONStringify(DEFAULT_EXPENSE_CATEGORIES))
           IN  [m |-> catch(m1), cats |-> DEFAULT_EXPENSE_CATEGORIES]

\* saveCategory that raises the entries' event
saveCategory_entriesEvent(m, category) ==
  LET g == getCategories(m)
      newCategories == g.cats \o <<category>>
      m1 == setItem(g.m, CATEGORY_STORAGE_KEY, JSONStringify(newCategories))
  IN  IF m1.threw THEN m1
      ELSE dispatchEvent(m1, "zenledger-update")

\* saveCategory that refuses a name that is already stored
saveCategory_unique(m, category) ==
  LET g == getCategories(m)
      newCategories == g.cats \o <<category>>
      m1 == setItem(g.m, CATEGORY_STORAGE_KEY, JSONStringify(newCategories))
  IN  IF \E i \in DOMAIN g.cats : g.cats[i].name = category.name THEN g.m
      ELSE IF m1.threw THEN m1
      ELSE dispatchEvent(m1, "zenledger-categories-update")

saveCategory(m, category) ==
  LET g == getCategories(m)
      newCategories == g.cats \o <<category>>
      m1 == setItem(g.m, CATEGORY_STORAGE_KEY, JSONStringify(newCategories))
  IN  IF m1.threw THEN m1                  \* not caught: propagates
      ELSE dispatchEvent(m1, "zenledger-categories-update")

\* deleteCategory that also deletes the entries naming the category
deleteCategory_cascade(m, id) ==
  LET g == getCategories(m)
  IN  IF Len(g.cats) <= 1 THEN g.m
      ELSE LET newCategories == SelectSeq(g.cats, LAMBDA c : c.id # id)
               gone == {g.cats[i].name : i \in {j \in DOMAIN g.cats :
                                                  g.cats[j].id = id}}
               m0 == setItem(g.m, STORAGE_KEY,
                       JSONStringify(SelectSeq(getEntries(g.m.ls),
                                       LAMBDA e : e.category \notin gone)))
               m1 == setItem(m0, CATEGORY_STORAGE_KEY,
                             JSONStringify(newCategories))
           IN  IF m1.threw THEN m1
               ELSE dispatchEvent(m1, "zenledger-categories-update")

deleteCategory(m, id) ==
  LET g == getCategories(m)
  IN  IF Len(g.cats) <= 1 THEN g.m
      ELSE LET newCategories == SelectSeq(g.cats, LAMBDA c : c.id # id)
               m1 == setItem(g.m, CATEGORY_STORAGE_KEY,
                             JSONStringify(newCategories))
           IN  IF m1.threw THEN m1         \* not caught: propagates
               ELSE dispatchEvent(m1, "zenledger-categories-update")

(***************************** backup documents ***************************)
\* A member of a parsed document: an array, another value, or missing.
Missing == [kind |-> "missing", val |-> <<>>]
NotArray == [kind |-> "other", val |-> <<>>]
Array(arr) == [kind |-> "array", val |-> arr]

\* A text handed to importData: not JSON at all, or the JSON text of null,
\* of a scalar, or of an object with the members below.
Doc(kind, entries, categories, exportedAt, appName, version) ==
  [valid |-> kind # "garbage", kind |-> kind, entries |-> entries,
   categories |-> categories, exportedAt |-> exportedAt,
   appName |-> appName, version |-> version]

\* data.entries / data.categories: undefined unless data is an object
Member(doc, name) == IF doc.kind = "object" THEN doc[name] ELSE Missing

isArray(f) == f.kind = "array"

\* exportData that snapshots the built-in categories instead of the stored
exportData_defaults(m, now) ==
  LET entries == getEntries(m.ls)
      g == getCategories(m)
  IN  [m |-> g.m,
       doc |-> Doc("object", Array(JSONStringify(entries).val),
                   Array(DEFAULT_EXPENSE_CATEGORIES), now, "ZenLedger", 1)]

\* exportData at time now: the run (getCategories may seed) and the document
exportData(m, now) ==
  LET entries == getEntries(m.ls)
      g == getCategories(m)
  IN  [m |-> g.m,
       doc |-> Doc("object", Array(JSONStringify(entries).val),
                   Array(JSONStringify(g.cats).val), now, "ZenLedger", 1)]

\* importData whose validation forgets the categories member
importData_entriesOnly(m, jsonString) ==
  IF ~jsonString.valid THEN return(m, "false")
  ELSE IF \/ jsonString.kind = "null"
          \/ ~isArray(Member(jsonString, "entries"))
  THEN return(m, "false")
  ELSE LET m1 == setItem(m, STORAGE_KEY,
                         JSONStringify(jsonString.entries.val))
       IN  IF m1.threw THEN return(catch(m1), "false")
           ELSE LET m2 == setItem(m1, CATEGORY_STORAGE_KEY,
                                  JSONStringify(jsonString.categories.val))
                IN  IF m2.threw THEN return(catch(m2), "false")
                    ELSE return(dispatchEvent(
                                  dispatchEvent(m2, "zenledger-update"),
                                  "zenledger-categories-update"), "true")

\* importData that merges the imported entries into the stored ones
importData_merge(m, jsonString) ==
  IF ~jsonString.valid THEN return(m, "false")
  ELSE IF \/ jsonString.kind = "null"
          \/ ~isArray(Member(jsonString, "entries"))
          \/ ~isArray(Member(jsonString, "categories"))
  THEN return(m, "false")
  ELSE LET m1 == setItem(m, STORAGE_KEY,
                         JSONStringify(jsonString.entries.val
                                       \o getEntries(m.ls)))
       IN  IF m1.threw THEN return(catch(m1), "false")
           ELSE LET m2 == setItem(m1, CATEGORY_STORAGE_KEY,
                                  JSONStringify(jsonString.categories.val))
                IN  IF m2.threw THEN return(catch(m2), "false")
                    ELSE return(dispatchEvent(
                                  dispatchEvent(m2, "zenledger-update"),
                                  "zenledger-categories-update"), "true")

importData(m, jsonString) ==
  IF ~jsonString.valid THEN return(m, "false")      \* JSON.parse throws
  ELSE IF \/ jsonString.kind = "null"
          \/ ~isArray(Member(jsonString, "entries"))
          \/ ~isArray(Member(jsonString, "categories"))
  THEN return(m, "false")
  ELSE LET m1 == setItem(m, STORAGE_KEY,
                         JSONStringify(jsonString.entries.val))
       IN  IF m1.threw THEN return(catch(m1), "false")
           ELSE LET m2 == setItem(m1, CATEGORY_STORAGE_KEY,
                                  JSONStringify(jsonString.categories.val))
                IN  IF m2.threw THEN return(catch(m2), "false")
                    ELSE return(dispatchEvent(
                                  dispatchEvent(m2, "zenledger-update"),
                                  "zenledger-categories-update"), "true")

(************************ the entry form (AddEntryPage) ********************)
\* Number(amount) on the amount texts of the model
Number(text) ==
  CASE text = "" -> Num(0)
    [] text = "0" -> Num(0)
    [] text = "30" -> Num(30)
    [] text = "-5" -> Num(-5)
    [] text = "1e999" -> Infinity
    [] OTHER -> NaN

navigate(m) == [m EXCEPT !.trace = Append(@, <<"navigate", "/">>)]

\* The entry handleSave builds from the form; id is the route's id or the
\* generated one.
entryData(f, id) ==
  [id |-> id,
   type |-> f.type,
   amount |-> IF f.type = "note" THEN Num(0) ELSE Number(f.amount),
   category |->
     IF f.type = "note" THEN NOTE_CATEGORY
     ELSE IF f.category # "" THEN f.category
     ELSE IF f.type = "income" THEN INCOME_CATEGORIES[1]
     ELSE IF Len(f.expenseCategories) > 0 THEN f.expenseCategories[1].name
     ELSE "qita",
   tags |-> <<>>,
   content |-> f.content,
   date |-> f.entryDate,
   media |-> f.media]

\* handleSave of the form f; generated is what generateId() returns.  isSaving
\* is false whenever a handler starts (it is set and reset inside this
\* synchronous handler), so its early return never fires.  Neither saveEntry
\* nor updateEntry lets an exception out, so the handler's catch is dead.
\* Returns the run and the entry passed to the store (none on early return).
handleSave(m, f, generated) ==
  IF f.type # "note" /\ f.amount = "" THEN [m |-> m, passed |-> <<>>]
  ELSE IF f.type # "note" /\ Number(f.amount).k = "nan"
  THEN [m |-> alert(m), passed |-> <<>>]
  ELSE LET e == entryData(f, IF f.id # "" THEN f.id ELSE generated)
           m1 == IF f.id # "" THEN updateEntry(m, e)
                 ELSE removeItem(saveEntry(m, e), DRAFT_KEY)
       IN  [m |-> navigate(m1), passed |-> <<e>>]

\* The draft autosave timer of a new-entry form firing
saveDraft(m, f) ==
  IF f.amount # "" \/ f.content # "" \/ Len(f.media) > 0
  THEN catch(setItem(m, DRAFT_KEY,
         Text([type |-> f.type, amount |-> f.amount, content |-> f.content,
               category |-> f.category, media |-> f.media])))
  ELSE m

(********************** the statistics page (StatsPage) ********************)
\* parseISO on the date texts of the model: the local calendar year and
\* month of the date, or an Invalid Date.  The texts are dates without a
\* time, which parseISO reads as local midnight.
parseISO(text) ==
  CASE text = "2024-05-01" -> [valid |-> TRUE, y |-> 2024, m |-> 5]
    [] text = "2024-05-15" -> [valid |-> TRUE, y |-> 2024, m |-> 5]
    [] text = "2024-04-30" -> [valid |-> TRUE, y |-> 2024, m |-> 4]
    [] text = "2023-05-10" -> [valid |-> TRUE, y |-> 2023, m |-> 5]
    [] OTHER -> [valid |-> FALSE, y |-> 0, m |-> 0]

\* new Date() when the page mounts
Now == [valid |-> TRUE, y |-> 2024, m |-> 5]

isSameMonth(dateLeft, dateRight) ==
  /\ dateLeft.valid
  /\ dateRight.valid
  /\ dateLeft.y = dateRight.y
  /\ dateLeft.m = dateRight.m

subMonths(date, amount) ==
  LET n == date.y * 12 + (date.m - 1) - amount
  IN  [date EXCEPT !.y = n \div 12, !.m = (n % 12) + 1]

addMonths(date, amount) == subMonths(date, 0 - amount)

\* filteredEntries that compares the month and forgets the year
filteredEntries_anyYear(entries, currentMonth, activeTab) ==
  SelectSeq(entries,
            LAMBDA e : /\ parseISO(e.date).valid
                       /\ parseISO(e.date).m = currentMonth.m
                       /\ e.type = activeTab)

filteredEntries(entries, currentMonth, activeTab) ==
  SelectSeq(entries,
            LAMBDA e : /\ isSameMonth(parseISO(e.date), currentMonth)
                       /\ e.type = activeTab)

\* a + b on numbers and null (null counts as 0)
Plus(a, b) ==
  LET x == IF a.k = "null" THEN Num(0) ELSE a
      y == IF b.k = "null" THEN Num(0) ELSE b
  IN  IF x.k = "nan" \/ y.k = "nan" THEN NaN
      ELSE IF x.k = "infinity" \/ y.k = "infinity" THEN Infinity
      ELSE Num(x.v + y.v)

\* filteredEntries.reduce((sum, e) => sum + e.amount, 0)
RECURSIVE totalAmount(_)
totalAmount(filtered) ==
  IF filtered = <<>> THEN Num(0)
  ELSE Plus(totalAmount(SubSeq(filtered, 1, Len(filtered) - 1)),
            filtered[Len(filtered)].amount)

\* A Map is the sequence of its [name, value] pairs in insertion order.
\* map.get(name) || 0
mapGetOrZero(map, name) ==
  IF \E i \in DOMAIN map : map[i].name = name
  THEN LET v == map[CHOOSE i \in DOMAIN map : map[i].name = name].value
       IN  IF v.k = "nan" THEN Num(0) ELSE v
  ELSE Num(0)

\* map.set that adds a pair also for a key the map holds
mapSet_append(map, name, value) ==
  Append(map, [name |-> name, value |-> value])

\* map.set(name, value): a key that is set again keeps its place
mapSet(map, name, value) ==
  IF \E i \in DOMAIN map : map[i].name = name
  THEN [i \in DOMAIN map |->
          IF map[i].name = name THEN [map[i] EXCEPT !.value = value]
          ELSE map[i]]
  ELSE Append(map, [name |-> name, value |-> value])

\* filteredEntries.forEach(e => map.set(e.category, ... + e.amount))
RECURSIVE groupByCategory(_)
groupByCategory(filtered) ==
  IF filtered = <<>> THEN <<>>
  ELSE LET map == groupByCategory(SubSeq(filtered, 1, Len(filtered) - 1))
           e == filtered[Len(filtered)]
       IN  mapSet(map, e.category,
                  Plus(mapGetOrZero(map, e.category), e.amount))

\* the colouring done after the sort: by place in the sorted list
withColors_sorted(pairs) ==
  LET ranked == [i \in DOMAIN pairs |->
                   Cardinality({j \in DOMAIN pairs :
                      \/ pairs[j].value.v > pairs[i].value.v
                      \/ pairs[j].value.v = pairs[i].value.v /\ j < i})]
  IN  [i \in DOMAIN pairs |->
         [name |-> pairs[i].name, value |-> pairs[i].value,
          color |-> COLORS[(ranked[i] % Len(COLORS)) + 1]]]

\* .map(([name, value], index) => ({name, value, color: COLORS[index % 10]}))
\* (index counts from 0, the sequences here from 1)
withColors(pairs) ==
  [i \in DOMAIN pairs |->
     [name |-> pairs[i].name, value |-> pairs[i].value,
      color |-> COLORS[((i - 1) % Len(COLORS)) + 1]]]

\* a sort that puts an item before the items of equal value
sort_unstable(items) ==
  LET place(i) == Cardinality({j \in DOMAIN items :
                     \/ items[j].value.v > items[i].value.v
                     \/ items[j].value.v = items[i].value.v /\ j > i}) + 1
  IN  [p \in DOMAIN items |-> items[CHOOSE i \in DOMAIN items : place(i) = p]]

\* .sort((a, b) => b.value - a.value): descending by value and stable; the
\* values are finite (the amounts come out of JSON)
sort(items) ==
  LET place(i) == Cardinality({j \in DOMAIN items :
                     \/ items[j].value.v > items[i].value.v
                     \/ items[j].value.v = items[i].value.v /\ j < i}) + 1
  IN  [p \in DOMAIN items |-> items[CHOOSE i \in DOMAIN items : place(i) = p]]

dataByCategory(filtered) == sort(withColors(groupByCategory(filtered)))

\* ((item.value / totalAmount) * 100).toFixed(1), in tenths of a percent; a
\* division by 0 gives NaN or an infinity
share(value, total) ==
  LET t == IF total.k = "null" THEN Num(0) ELSE total
  IN  IF value.k # "number" \/ t.k # "number" THEN NaN
      ELSE IF t.v = 0
      THEN (IF value.v = 0 THEN NaN
            ELSE IF value.v > 0 THEN Infinity
            ELSE [k |-> "-infinity", v |-> 0])
      ELSE IF t.v > 0
      THEN Num((2000 * value.v + t.v) \div (2 * t.v))
      ELSE Num((0 - 2000 * value.v - t.v) \div (0 - 2 * t.v))

\* the page is not mounted
NoStats ==
  [mounted |-> FALSE, currentMonth |-> Now, activeTab |-> "expense",
   filteredEntries |-> <<>>, totalAmount |-> Num(0),
   dataByCategory |-> <<>>, shares |-> <<>>]

\* one render of the page over the entries App hands it; the shares are
\* computed when there is a group to show
StatsPage(entries, currentMonth, activeTab) ==
  LET filtered == filteredEntries(entries, currentMonth, activeTab)
      total == totalAmount(filtered)
      groups == dataByCategory(filtered)
  IN  [mounted |-> TRUE, currentMonth |-> currentMonth,
       activeTab |-> activeTab, filteredEntries |-> filtered,
       totalAmount |-> total, dataByCategory |-> groups,
       shares |-> [i \in DOMAIN groups |-> share(groups[i].value, total)]]

(********************************* inputs **********************************)
SeqsUpTo(S, n) == UNION {[1..k -> S] : k \in 0..n}

Entry(id, type, amount, category, content, date) ==
  [id |-> id, type |-> type, amount |-> amount, category |-> category,
   tags |-> <<>>, content |-> content, date |-> date, media |-> <<>>]

\* entries handed to createEntry / updateEntry: two with the same id, one
\* whose amount is not finite
EntryPool ==
  { Entry("e1", "expense", Num(30), "canyin", "lunch", "2024-05-01"),
    Entry("e1", "expense", Num(20), "canyin", "dinner", "2024-05-15"),
    Entry("e2", "income", Infinity, "gongzi", "", "2024-04-30") }

\* ids generateId can return
IdPool == {"e1", "e2", "e3"}

\* ids handed to deleteEntry ("" is the empty id)
DeleteIds == IdPool \cup {""}

\* categories handed to createCategory: the same name under two ids (the
\* store checks neither the id nor the name against the stored ones, so the
\* same category can also be created twice)
CategoryPool ==
  { [id |-> "c1", name |-> "kafei", type |-> "expense", color |-> COLORS[1]],
    [id |-> "c2", name |-> "kafei", type |-> "expense", color |-> COLORS[2]] }

\* ids handed to deleteCategory: a default, a created one, an unknown one
CategoryDeleteIds == {"1", "c1", "zz"}

\* entries of backup documents
DocEntryPool ==
  { Entry("e1", "expense", Num(20), "canyin", "dinner", "2024-05-15") }

\* categories of backup documents
DocCategoryPool ==
  { [id |-> "c1", name |-> "kafei", type |-> "expense", color |-> COLORS[1]] }

\* the arrays a document can hold under a member
DocArrays(pool) == {Array(a) : a \in SeqsUpTo(pool, MaxDocLen)}

\* a member that is no array, or one sample array
DocMembers(pool) ==
  {Missing, NotArray} \cup {Array(<<e>>) : e \in pool}

\* texts handed to importData: texts that are not JSON or no object, objects
\* with a member missing or no array, and the well-formed backups
ImportDocs ==
  { Doc("garbage", Missing, Missing, "", "", 0),
    Doc("null", Missing, Missing, "", "", 0),
    Doc("scalar", Missing, Missing, "", "", 0) }
  \cup { Doc("object", es, cs, "t0", "ZenLedger", 1) :
           es \in DocMembers(DocEntryPool), cs \in DocMembers(DocCategoryPool) }
  \cup { Doc("object", es, cs, "t0", "ZenLedger", 1) :
           es \in DocArrays(DocEntryPool), cs \in DocArrays(DocCategoryPool) }

\* states of the entry form when a handler runs
Form(id, type, amount, content, category) ==
  [id |-> id, type |-> type, amount |-> amount, content |-> content,
   category |-> category, media |-> <<>>, entryDate |-> "2024-05-01",
   expenseCategories |-> DEFAULT_EXPENSE_CATEGORIES]

\* a new expense, an untouched form, an amount of 0, an amount that is no
\* number, a note
\* over leftover amount and category, an edit with a negative amount and no
\* category
Forms ==
  { Form("", "expense", "30", "lunch", "canyin"),
    Form("", "expense", "", "", ""),
    Form("", "expense", "0", "", "canyin"),
    Form("", "income", "abc", "", ""),
    Form("", "note", "-5", "lunch", "canyin"),
    Form("e1", "expense", "-5", "lunch", "") }

\* entries handed to the statistics page: two categories with the same
\* sum, a category met second with the larger sum, the other type, a note,
\* the last day of the month before, the same month a year before, an
\* amount that JSON stored as null
StatsEntryPool ==
  { Entry("s1", "expense", Num(30), "canyin", "", "2024-05-01"),
    Entry("s2", "expense", Num(30), "jiaotong", "", "2024-05-15"),
    Entry("s3", "expense", Num(20), "canyin", "", "2024-05-15"),
    Entry("s4", "expense", Num(50), "jiaotong", "", "2024-05-01"),
    Entry("s5", "income", Num(100), "gongzi", "", "2024-05-01"),
    Entry("s6", "note", Num(0), NOTE_CATEGORY, "memo", "2024-05-01"),
    Entry("s7", "expense", Num(20), "canyin", "", "2024-04-30"),
    Entry("s8", "expense", Num(30), "canyin", "", "2023-05-10"),
    Entry("s9", "expense", Null, "yule", "", "2024-05-01") }

\* n expenses of this month, each of its own category, the amounts rising
OnePerCategory(n) ==
  [i \in 1..n |->
     Entry(ToString(i), "expense", Num(i), ToString(i), "", "2024-05-01")]

StatsEntryLists ==
  SeqsUpTo(StatsEntryPool, MaxStatsLen)
    \cup {OnePerCategory(n) : n \in (Len(COLORS) - 1)..MaxGroups}

\* the setItem calls of one operation that throw, by ordinal; n is the most
\* setItem calls the operation makes
Faults(n) == SUBSET (1..n)

(********************************* actions *********************************)
NoCall ==
  [name |-> "", entry |-> <<>>, id |-> "", cat |-> <<>>, doc |-> <<>>]

\* the operation has run: its effects become the state; a mounted statistics
\* page renders again over App's entries
Done(c, m) ==
  /\ localStorage' = m.ls
  /\ appEntries' = m.app
  /\ stats' = IF stats.mounted
              THEN StatsPage(m.app, stats.currentMonth, stats.activeTab)
              ELSE stats
  /\ call' = c
  /\ outcome' = [trace |-> m.trace, ret |-> m.ret, threw |-> m.threw,
                 failed |-> m.failed, val |-> m.val, recv |-> m.recv]

NoOutcome ==
  [trace |-> <<>>, ret |-> "undefined", threw |-> FALSE, failed |-> FALSE,
   val |-> <<>>, recv |-> [l \in Listeners |-> 0]]

Init ==
  /\ localStorage = [k \in Keys |-> Absent]
  /\ appEntries = <<>>
  /\ call = NoCall
  /\ outcome = NoOutcome
  /\ stats = NoStats

\* the handler has returned: the event loop waits for the next event
Idle ==
  /\ call # NoCall
  /\ call' = NoCall
  /\ outcome' = NoOutcome
  /\ UNCHANGED <<localStorage, appEntries, stats>>

CustomCount(cats) ==
  Cardinality({i \in DOMAIN cats :
                 \A j \in DOMAIN DEFAULT_EXPENSE_CATEGORIES :
                    cats[i] # DEFAULT_EXPENSE_CATEGORIES[j]})

SaveEntry ==
  /\ call = NoCall
  /\ \E e \in EntryPool, F \in Faults(1) :
    /\ \/ findIndex(getEntries(localStorage), e.id) # -1
       \/ Len(getEntries(localStorage)) < MaxEntries
    /\ Done([NoCall EXCEPT !.name = "saveEntry", !.entry = <<e>>],
            saveEntry(Start(F), e))

UpdateEntry ==
  /\ call = NoCall
  /\ \E e \in EntryPool, F \in Faults(1) :
    Done([NoCall EXCEPT !.name = "updateEntry", !.entry = <<e>>],
         updateEntry(Start(F), e))

DeleteEntry ==
  /\ call = NoCall
  /\ \E id \in DeleteIds, F \in Faults(1) :
    Done([NoCall EXCEPT !.name = "deleteEntry", !.id = id],
         deleteEntry(Start(F), id))

GetEntries ==
  /\ call = NoCall
  /\ Done([NoCall EXCEPT !.name = "getEntries"], getEntriesCall(Start({})))

GetEntry ==
  /\ call = NoCall
  /\ \E id \in IdPool :
    Done([NoCall EXCEPT !.name = "getEntry", !.id = id],
         returnList(Start({}), getEntry(localStorage, id)))

GetCategories ==
  /\ call = NoCall
  /\ \E F \in Faults(1) :
    LET g == getCategories(Start(F))
    IN  Done([NoCall EXCEPT !.name = "getCategories"], returnList(g.m, g.cats))

SaveCategory ==
  /\ call = NoCall
  /\ \E c \in CategoryPool, F \in Faults(2) :
    /\ CustomCount(getCategories(Start({})).cats) < MaxCustom
    /\ Done([NoCall EXCEPT !.name = "saveCategory", !.cat = <<c>>],
            saveCategory(Start(F), c))

DeleteCategory ==
  /\ call = NoCall
  /\ \E id \in CategoryDeleteIds, F \in Faults(2) :
    Done([NoCall EXCEPT !.name = "deleteCategory", !.id = id],
         deleteCategory(Start(F), id))

ExportData ==
  /\ call = NoCall
  /\ \E F \in Faults(1) :
    LET x == exportData(Start(F), "t0")
    IN  Done([NoCall EXCEPT !.name = "exportData", !.doc = <<x.doc>>], x.m)

\* importData of any text of the model or, right after an export, of the
\* backup just exported
ImportData ==
  \E d \in (IF call = NoCall THEN ImportDocs
            ELSE IF call.name = "exportData" THEN {call.doc[1]} ELSE {}),
     F \in Faults(2) :
    Done([NoCall EXCEPT !.name = "importData", !.doc = <<d>>],
         importData(Start(F), d))

HandleSave ==
  /\ call = NoCall
  /\ ~stats.mounted
  /\ \E f \in Forms, F \in Faults(1) :
    \E generated \in
         IF f.id # "" THEN {""}
         ELSE {i \in IdPool :
                 findIndex(getEntries(localStorage), i) = -1} :
      /\ \/ f.id # ""
         \/ Len(getEntries(localStorage)) < MaxEntries
      /\ LET h == handleSave(Start(F), f, generated)
         IN  Done([NoCall EXCEPT !.name = "handleSave", !.id = f.id,
                                 !.entry = h.passed], h.m)

SaveDraft ==
  /\ call = NoCall
  /\ ~stats.mounted
  /\ \E f \in {g \in Forms : g.id = ""}, F \in Faults(1) :
    Done([NoCall EXCEPT !.name = "saveDraft"], saveDraft(Start(F), f))

Next ==
  \/ GetEntries
  \/ GetEntry
  \/ SaveEntry
  \/ UpdateEntry
  \/ DeleteEntry
  \/ GetCategories
  \/ SaveCategory
  \/ DeleteCategory
  \/ ExportData
  \/ ImportData
  \/ Idle

Spec == Init /\ [][Next]_vars

\* The store started over a storage whose entries key or categories key may
\* hold a text that is not JSON (App reads the entries on mount).
InitUnreadable ==
  /\ localStorage \in {ls \in [Keys -> {Absent, Garbage}] :
                         ls[DRAFT_KEY] = Absent}
  /\ appEntries = getEntries(localStorage)
  /\ call = NoCall
  /\ outcome = NoOutcome
  /\ stats = NoStats

SpecUnreadable == InitUnreadable /\ [][Next]_vars

\* The entry form over the store: its save handler and draft timer, with
\* deleteEntry (the form's delete button) making room for new entries.
NextForm ==
  \/ HandleSave
  \/ SaveDraft
  \/ DeleteEntry
  \/ Idle

SpecForm == Init /\ [][NextForm]_vars

\* navigation to the statistics page: it mounts on the current month
OpenStats ==
  /\ call = NoCall
  /\ ~stats.mounted
  /\ stats' = StatsPage(appEntries, Now, "expense")
  /\ UNCHANGED <<localStorage, appEntries, call, outcome>>

\* navigation away from the statistics page
CloseStats ==
  /\ call = NoCall
  /\ stats.mounted
  /\ stats' = NoStats
  /\ UNCHANGED <<localStorage, appEntries, call, outcome>>

MonthIndex(date) == date.y * 12 + date.m

prevMonth ==
  /\ call = NoCall
  /\ stats.mounted
  /\ MonthIndex(Now) - MonthIndex(stats.currentMonth) < MonthsBack
  /\ stats' = StatsPage(appEntries, subMonths(stats.currentMonth, 1),
                        stats.activeTab)
  /\ UNCHANGED <<localStorage, appEntries, call, outcome>>

nextMonth ==
  /\ call = NoCall
  /\ stats.mounted
  /\ MonthIndex(stats.currentMonth) - MonthIndex(Now) < MonthsAhead
  /\ stats' = StatsPage(appEntries, addMonths(stats.currentMonth, 1),
                        stats.activeTab)
  /\ UNCHANGED <<localStorage, appEntries, call, outcome>>

setActiveTab ==
  /\ call = NoCall
  /\ stats.mounted
  /\ \E tab \in {"expense", "income"} :
       stats' = StatsPage(appEntries, stats.currentMonth, tab)
  /\ UNCHANGED <<localStorage, appEntries, call, outcome>>

\* The statistics page over any entries list App can hand it: App has
\* mounted over the stored entries, the page is opened and used.
InitStats ==
  /\ appEntries \in StatsEntryLists
  /\ localStorage = [k \in Keys |-> IF k = STORAGE_KEY THEN Text(appEntries)
                                     ELSE Absent]
  /\ call = NoCall
  /\ outcome = NoOutcome
  /\ stats = NoStats

NextStats ==
  \/ OpenStats
  \/ prevMonth
  \/ nextMonth
  \/ setActiveTab

SpecStats == InitStats /\ [][NextStats]_vars

\* The entry form and the statistics page over the store: what the
\* statistics page shows of the entries the form saved.
NextFormStats ==
  \/ HandleSave
  \/ DeleteEntry
  \/ Idle
  \/ OpenStats
  \/ CloseStats
  \/ prevMonth
  \/ nextMonth
  \/ setActiveTab

SpecFormStats == Init /\ [][NextFormStats]_vars

(******************************* properties ********************************)
\* listCategories() as a caller sees it in storage ls
ListCategories(ls) == getCategories(StartAt(ls, <<>>, {})).cats

\* the effect was made by the operation that led to the state
Did(o, kind, name) == \E i \in DOMAIN o.trace : o.trace[i] = <<kind, name>>

Notified(o) ==
  \/ Did(o, "dispatchEvent", "zenledger-update")
  \/ Did(o, "dispatchEvent", "zenledger-categories-update")

IdsUnique(arr) ==
  \A i, j \in DOMAIN arr : arr[i].id = arr[j].id => i = j

\* C1: importData is all-or-nothing: an import that does not return true
\* leaves every storage key as it was, so entries are never replaced without
\* the categories.
C1_ImportAllOrNothing ==
  [][(call'.name = "importData" /\ outcome'.ret # "true")
       => localStorage' = localStorage]_vars

\* C2: the categories collection is never empty: in every reachable state
\* listCategories() returns at least one category.
C2_CategoriesNonEmpty == Len(ListCategories(localStorage)) >= 1

\* C3: category floor under deletion: a deleteCategory call on a non-empty
\* categories collection leaves at least one category.
C3_DeleteKeepsOne ==
  [][(call'.name = "deleteCategory" /\ Len(ListCategories(localStorage)) >= 1)
       => Len(ListCategories(localStorage')) >= 1]_vars

\* C4: entry ids are unique: in every reachable state no two stored entries
\* share an id.
C4_EntryIdsUnique == IdsUnique(getEntries(localStorage))

\* C5: upsert idempotence: a createEntry whose id is already stored leaves
\* the number of entries and every other entry's position unchanged and, its
\* write succeeding, puts the entry's JSON value at the existing position;
\* after any successful createEntry, creating the same entry again yields
\* the same collection.
C5_UpsertIdempotent ==
  [][call'.name = "saveEntry" =>
       LET e == call'.entry[1]
           before == getEntries(localStorage)
           after == getEntries(localStorage')
           i == findIndex(before, e.id)
       IN  /\ i # -1 =>
                /\ Len(after) = Len(before)
                /\ \A j \in DOMAIN before : j # i + 1 => after[j] = before[j]
                /\ ~outcome'.failed => after[i + 1] = JSONValue(e)
           /\ ~outcome'.failed =>
                getEntries(saveEntry(StartAt(localStorage', appEntries', {}),
                                     e).ls) = after]_vars

\* a createEntry overwrote an entry that was not at the front
C5_Witness ==
  /\ call.name = "saveEntry"
  /\ ~outcome.failed
  /\ findIndex(getEntries(localStorage), call.entry[1].id) > 0
  /\ getEntries(localStorage)[findIndex(getEntries(localStorage),
                                        call.entry[1].id) + 1]
       = JSONValue(call.entry[1])

\* C6: export/import round trip: exportData leaves listEntries() and
\* listCategories() as they were, and importData of the document just
\* exported leaves them as they were, element for element and in order, and
\* returns true when its writes succeed.
C6_RoundTrip ==
  [][/\ call'.name = "exportData" =>
          /\ getEntries(localStorage') = getEntries(localStorage)
          /\ ListCategories(localStorage') = ListCategories(localStorage)
     /\ (call.name = "exportData" /\ call'.name = "importData"
           /\ call'.doc = call.doc) =>
          /\ getEntries(localStorage') = getEntries(localStorage)
          /\ ListCategories(localStorage') = ListCategories(localStorage)
          /\ ~outcome'.failed => outcome'.ret = "true"]_vars

\* an exported backup (it holds the built-in categories and a created one)
\* of a store with entries was imported back
C6_Witness ==
  /\ call.name = "importData"
  /\ outcome.ret = "true"
  /\ Len(call.doc[1].entries.val) >= 1
  /\ \E i \in DOMAIN call.doc[1].categories.val :
        call.doc[1].categories.val[i] = DEFAULT_EXPENSE_CATEGORIES[8]
  /\ \E i \in DOMAIN call.doc[1].categories.val :
        call.doc[1].categories.val[i] \in CategoryPool

\* the text is not JSON, or its entries or categories member is missing or
\* is no array
Malformed(d) ==
  \/ ~d.valid
  \/ ~isArray(Member(d, "entries"))
  \/ ~isArray(Member(d, "categories"))

\* C7: a malformed import is rejected without effect: importData returns
\* false, every storage key holds what it held, no notification fires and
\* the observer's list is untouched.
C7_MalformedRejected ==
  [][(call'.name = "importData" /\ Malformed(call'.doc[1])) =>
       /\ outcome'.ret = "false"
       /\ localStorage' = localStorage
       /\ appEntries' = appEntries
       /\ outcome'.trace = <<>>]_vars

\* a text whose entries are an array but whose categories are missing was
\* rejected over a store holding entries
C7_Witness ==
  /\ call.name = "importData"
  /\ isArray(Member(call.doc[1], "entries"))
  /\ Len(call.doc[1].entries.val) >= 1
  /\ ~isArray(Member(call.doc[1], "categories"))
  /\ outcome.ret = "false"
  /\ Len(getEntries(localStorage)) >= 1
  /\ localStorage[CATEGORY_STORAGE_KEY].present

\* C8: a successful import is a full replace followed by both notifications:
\* once importData has returned true the stored entries and categories are
\* exactly the imported arrays, and the operation wrote the entries, wrote
\* the categories, then fired entries-changed and categories-changed, once
\* each and in that order.
C8_ImportReplaces ==
  (call.name = "importData" /\ outcome.ret = "true") =>
    /\ localStorage[STORAGE_KEY] = Text(call.doc[1].entries.val)
    /\ localStorage[CATEGORY_STORAGE_KEY] = Text(call.doc[1].categories.val)
    /\ appEntries = call.doc[1].entries.val
    /\ outcome.trace = << <<"setItem", STORAGE_KEY>>,
                          <<"setItem", CATEGORY_STORAGE_KEY>>,
                          <<"dispatchEvent", "zenledger-update">>,
                          <<"dispatchEvent", "zenledger-categories-update">> >>

\* a backup with entries and categories was imported
C8_Witness ==
  /\ call.name = "importData"
  /\ outcome.ret = "true"
  /\ Len(call.doc[1].entries.val) >= 1
  /\ Len(call.doc[1].categories.val) >= 1
  /\ call.doc[1].categories.val[1] \in DocCategoryPool

\* the operation's persisting setItem threw: saveEntry and updateEntry catch
\* it and alert, the others let it propagate
PersistFailed(c, o) ==
  /\ c.name \in {"saveEntry", "updateEntry", "deleteEntry",
                  "saveCategory", "deleteCategory"}
  /\ IF c.name \in {"saveEntry", "updateEntry"}
     THEN Did(o, "alert", "")
     ELSE o.threw

\* C9 as stated: when the persist step of a single-collection mutation fails,
\* both keys hold what they held and no notification fires.
C9_FailedWriteUntouched ==
  [][PersistFailed(call', outcome') =>
       /\ localStorage' = localStorage
       /\ ~Notified(outcome')]_vars

\* C9 as amended: when the persist step of a single-collection mutation
\* fails, no notification fires, the entries key (and the draft key) hold
\* what they held, listEntries() and listCategories() return what they
\* returned, and the categories key holds what it held unless it was absent
\* and the operation's read seeded it with the built-in categories.
C9_FailedWriteKeepsCollections ==
  [][PersistFailed(call', outcome') =>
       /\ ~Notified(outcome')
       /\ appEntries' = appEntries
       /\ localStorage'[STORAGE_KEY] = localStorage[STORAGE_KEY]
       /\ localStorage'[DRAFT_KEY] = localStorage[DRAFT_KEY]
       /\ getEntries(localStorage') = getEntries(localStorage)
       /\ ListCategories(localStorage') = ListCategories(localStorage)
       /\ \/ localStorage'[CATEGORY_STORAGE_KEY]
               = localStorage[CATEGORY_STORAGE_KEY]
          \/ /\ ~localStorage[CATEGORY_STORAGE_KEY].present
             /\ call'.name \in {"saveCategory", "deleteCategory"}
             /\ localStorage'[CATEGORY_STORAGE_KEY]
                  = JSONStringify(DEFAULT_EXPENSE_CATEGORIES)]_vars

\* the write of a createEntry failed over a store that holds entries
C9_Witness ==
  /\ PersistFailed(call, outcome)
  /\ call.name = "saveEntry"
  /\ Len(getEntries(localStorage)) >= 1

\* C10: a failed write reaches the save handler: when the write of the
\* createEntry or updateEntry that handleSave calls fails, handleSave does
\* not navigate away.
C10_SaveFailureObserved ==
  (call.name = "handleSave" /\ outcome.failed)
    => ~Did(outcome, "navigate", "/")

\* C11: the draft key is cleared on a successful save and only then: after a
\* handleSave of a new entry whose write succeeded the draft key is absent;
\* after a handleSave whose write failed, or that returned early on
\* validation, the draft key holds what it held.
C11_DraftClearedOnlyOnSuccess ==
  [][call'.name = "handleSave" =>
       /\ (call'.id = "" /\ call'.entry # <<>> /\ ~outcome'.failed)
            => ~localStorage'[DRAFT_KEY].present
       /\ (outcome'.failed \/ call'.entry = <<>>)
            => localStorage'[DRAFT_KEY] = localStorage[DRAFT_KEY]]_vars

\* the operation that ran is a mutating entry operation that succeeded:
\* createEntry, updateEntry or deleteEntry of a stored id whose write
\* succeeded, or an importData that returned true
EntryMutationSucceeded(ls, c, o) ==
  \/ c.name = "saveEntry" /\ ~o.failed
  \/ /\ c.name = "updateEntry"
     /\ findIndex(getEntries(ls), c.entry[1].id) # -1
     /\ ~o.failed
  \/ /\ c.name = "deleteEntry"
     /\ c.id # ""
     /\ findIndex(getEntries(ls), c.id) # -1
     /\ ~o.failed
  \/ c.name = "importData" /\ o.ret = "true"

\* C12: notification fan-out: every listener of the entries-changed event is
\* called exactly once by each successful mutating entry operation, and not
\* at all by listEntries, getEntry, listCategories and exportData.
C12_FanOut ==
  [][/\ EntryMutationSucceeded(localStorage, call', outcome')
          => \A l \in Listeners : outcome'.recv[l] = 1
     /\ call'.name \in {"getEntries", "getEntry", "getCategories", "exportData"}
          => /\ \A l \in Listeners : outcome'.recv[l] = 0
             /\ ~Notified(outcome')]_vars

\* an updateEntry of a stored id called every one of several listeners once
C12_Witness ==
  /\ call.name = "updateEntry"
  /\ Did(outcome, "setItem", STORAGE_KEY)
  /\ NumListeners >= 2
  /\ \A l \in Listeners : outcome.recv[l] = 1

\* C13: the two signals are distinct: createCategory and deleteCategory fire
\* only categories-changed and never entries-changed (no listener of the
\* entries event runs); createEntry, updateEntry and deleteEntry fire only
\* entries-changed and never categories-changed.
C13_SignalsDistinct ==
  /\ call.name \in {"saveCategory", "deleteCategory"} =>
       /\ ~Did(outcome, "dispatchEvent", "zenledger-update")
       /\ \A l \in Listeners : outcome.recv[l] = 0
  /\ call.name \in {"saveEntry", "updateEntry", "deleteEntry"} =>
       ~Did(outcome, "dispatchEvent", "zenledger-categories-update")

\* a createCategory fired categories-changed
C13_Witness ==
  /\ call.name = "saveCategory"
  /\ Did(outcome, "dispatchEvent", "zenledger-categories-update")
  /\ Len(getEntries(localStorage)) >= 1

\* the entries of arr whose id is not id, in order
OtherIds(arr, id) == SelectSeq(arr, LAMBDA e : e.id # id)

\* C14: createEntry of an id that is not stored prepends: its write
\* succeeding, listEntries() is the new entry (as JSON holds it: the entry
\* itself when its amount is finite) followed by the previous entries in
\* their order, and getEntry(id) returns the new entry.
C14_CreatePrepends ==
  [][(/\ call'.name = "saveEntry"
      /\ findIndex(getEntries(localStorage), call'.entry[1].id) = -1
      /\ ~outcome'.failed) =>
       LET e == call'.entry[1]
       IN  /\ getEntries(localStorage')
                = <<JSONValue(e)>> \o getEntries(localStorage)
           /\ getEntry(localStorage', e.id) = <<JSONValue(e)>>
           /\ e.amount.k = "number" => JSONValue(e) = e]_vars

\* a createEntry put a new entry in front of a stored one
C14_Witness ==
  /\ call.name = "saveEntry"
  /\ ~outcome.failed
  /\ Len(getEntries(localStorage)) = 2
  /\ getEntries(localStorage)[1] = call.entry[1]
  /\ getEntries(localStorage)[2].id # call.entry[1].id

\* C15: deleteEntry removes the entry: after a deleteEntry(id) that returned,
\* getEntry(id) is absent and the entries with other ids are the same, in
\* the same order.
C15_DeleteRemoves ==
  [][(call'.name = "deleteEntry" /\ ~outcome'.threw) =>
       /\ getEntry(localStorage', call'.id) = <<>>
       /\ OtherIds(getEntries(localStorage'), call'.id)
            = OtherIds(getEntries(localStorage), call'.id)]_vars

\* C16: delete is idempotent: a deleteEntry whose id is empty or not stored
\* does not fail, leaves every storage key and the observer's list as they
\* were, writes nothing and fires no notification.
C16_DeleteAbsentNoOp ==
  [][(/\ call'.name = "deleteEntry"
      /\ \/ call'.id = ""
         \/ findIndex(getEntries(localStorage), call'.id) = -1) =>
       /\ ~outcome'.threw
       /\ ~outcome'.failed
       /\ localStorage' = localStorage
       /\ appEntries' = appEntries
       /\ outcome'.trace = <<>>
       /\ \A l \in Listeners : outcome'.recv[l] = 0]_vars

\* a deleteEntry of an id that is not stored ran over a store with entries
C16_Witness ==
  /\ call.name = "deleteEntry"
  /\ call.id # ""
  /\ outcome.trace = <<>>
  /\ Len(getEntries(localStorage)) >= 1
  /\ findIndex(getEntries(localStorage), call.id) = -1

\* C17: updateEntry replaces in place and never inserts: with the id stored,
\* the number of entries, the sequence of ids and every other entry are
\* unchanged and, its write succeeding, the entry's JSON value is at the
\* index found; with the id not stored, the storage and the observer's list
\* are unchanged, nothing is written, no notification fires and nothing is
\* alerted or thrown.
C17_UpdateInPlace ==
  [][call'.name = "updateEntry" =>
       LET e == call'.entry[1]
           before == getEntries(localStorage)
           after == getEntries(localStorage')
           i == findIndex(before, e.id)
       IN  /\ i # -1 =>
                /\ Len(after) = Len(before)
                /\ \A j \in DOMAIN before : after[j].id = before[j].id
                /\ \A j \in DOMAIN before : j # i + 1 => after[j] = before[j]
                /\ ~outcome'.failed => after[i + 1] = JSONValue(e)
           /\ i = -1 =>
                /\ localStorage' = localStorage
                /\ appEntries' = appEntries
                /\ outcome'.trace = <<>>
                /\ ~outcome'.threw]_vars

\* an updateEntry replaced an entry that was not at the front
C17_Witness ==
  /\ call.name = "updateEntry"
  /\ Did(outcome, "setItem", STORAGE_KEY)
  /\ findIndex(getEntries(localStorage), call.entry[1].id) > 0
  /\ getEntries(localStorage)[findIndex(getEntries(localStorage),
                                        call.entry[1].id) + 1]
       = JSONValue(call.entry[1])

\* the key holds a text that JSON.parse rejects
Unparseable(item) == item.present /\ ~item.valid

\* C18: listEntries never fails: whether the entries key is absent, holds
\* unparseable text or holds a collection written by the store, getEntries
\* throws nothing, has no effect, and returns a sequence: the empty one when
\* the key is absent or unparseable, the stored one otherwise.
C18_ListEntriesNeverFails ==
  call.name = "getEntries" =>
    /\ ~outcome.threw
    /\ outcome.trace = <<>>
    /\ IF localStorage[STORAGE_KEY].present /\ localStorage[STORAGE_KEY].valid
       THEN outcome.val = localStorage[STORAGE_KEY].val
       ELSE outcome.val = <<>>

\* getEntries ran over an entries key holding unparseable text
C18_Witness ==
  /\ call.name = "getEntries"
  /\ Unparseable(localStorage[STORAGE_KEY])
  /\ outcome.val = <<>>
  /\ ~outcome.threw

\* C19 as stated: a read failure is an empty collection for both
\* collections: when the entries key or the categories key holds unparseable
\* text, the list operation returns the empty collection and throws nothing.
C19_UnreadableReadsEmpty ==
  [][/\ (call'.name = "getEntries" /\ Unparseable(localStorage[STORAGE_KEY]))
          => (outcome'.val = <<>> /\ ~outcome'.threw)
     /\ (call'.name = "getCategories"
           /\ Unparseable(localStorage[CATEGORY_STORAGE_KEY]))
          => (outcome'.val = <<>> /\ ~outcome'.threw)]_vars

\* C19 as amended: when the entries key holds unparseable text listEntries
\* returns the empty collection; when the categories key holds unparseable
\* text listCategories returns the built-in categories and leaves the key as
\* it is; neither throws, writes or notifies.
C19_UnreadableReadsFallback ==
  [][/\ (call'.name = "getEntries" /\ Unparseable(localStorage[STORAGE_KEY]))
          => /\ outcome'.val = <<>>
             /\ ~outcome'.threw
             /\ outcome'.trace = <<>>
             /\ localStorage' = localStorage
     /\ (call'.name = "getCategories"
           /\ Unparseable(localStorage[CATEGORY_STORAGE_KEY]))
          => /\ outcome'.val = DEFAULT_EXPENSE_CATEGORIES
             /\ ~outcome'.threw
             /\ outcome'.trace = <<>>
             /\ localStorage' = localStorage]_vars

\* getCategories ran over a categories key holding unparseable text, the
\* store holding entries
C19_Witness ==
  /\ call.name = "getCategories"
  /\ Unparseable(localStorage[CATEGORY_STORAGE_KEY])
  /\ outcome.val = DEFAULT_EXPENSE_CATEGORIES
  /\ Len(getEntries(localStorage)) >= 1

\* C20: lazy seeding: a listCategories() that finds the categories key absent
\* returns exactly the built-in categories in their order, fires no
\* notification, throws nothing, leaves the other keys alone and, its write
\* succeeding, leaves the built-in categories stored under the key.
C20_LazySeeding ==
  [][(call'.name = "getCategories"
        /\ ~localStorage[CATEGORY_STORAGE_KEY].present) =>
       /\ outcome'.val = DEFAULT_EXPENSE_CATEGORIES
       /\ ~Notified(outcome')
       /\ \A l \in Listeners : outcome'.recv[l] = 0
       /\ ~outcome'.threw
       /\ localStorage'[STORAGE_KEY] = localStorage[STORAGE_KEY]
       /\ localStorage'[DRAFT_KEY] = localStorage[DRAFT_KEY]
       /\ appEntries' = appEntries
       /\ ~outcome'.failed =>
            /\ outcome'.trace = << <<"setItem", CATEGORY_STORAGE_KEY>> >>
            /\ localStorage'[CATEGORY_STORAGE_KEY]
                 = Text(DEFAULT_EXPENSE_CATEGORIES)]_vars

\* a listCategories() seeded the key of a store that holds entries
C20_Witness ==
  /\ call.name = "getCategories"
  /\ Did(outcome, "setItem", CATEGORY_STORAGE_KEY)
  /\ outcome.val = DEFAULT_EXPENSE_CATEGORIES
  /\ localStorage[CATEGORY_STORAGE_KEY] = Text(DEFAULT_EXPENSE_CATEGORIES)
  /\ Len(getEntries(localStorage)) >= 1

\* C21: createCategory appends without a name check: its write succeeding,
\* listCategories() is the previous sequence followed by the new category,
\* also when a category of that name is already stored.
C21_CreateCategoryAppends ==
  [][(call'.name = "saveCategory" /\ ~outcome'.failed) =>
       ListCategories(localStorage')
         = ListCategories(localStorage) \o <<call'.cat[1]>>]_vars

\* a createCategory added a category whose name was already stored
C21_Witness ==
  /\ call.name = "saveCategory"
  /\ ~outcome.failed
  /\ LET cats == ListCategories(localStorage)
     IN  /\ cats[Len(cats)] = call.cat[1]
         /\ \E i \in 1..(Len(cats) - 1) : cats[i].name = call.cat[1].name

\* C22: no cascade, independent collections: createCategory and
\* deleteCategory leave the entries key and the observer's list as they
\* were; createEntry, updateEntry and deleteEntry leave the categories key
\* as it was.
C22_NoCascade ==
  [][/\ call'.name \in {"saveCategory", "deleteCategory"} =>
          /\ localStorage'[STORAGE_KEY] = localStorage[STORAGE_KEY]
          /\ appEntries' = appEntries
     /\ call'.name \in {"saveEntry", "updateEntry", "deleteEntry"} =>
          localStorage'[CATEGORY_STORAGE_KEY]
            = localStorage[CATEGORY_STORAGE_KEY]]_vars

\* a deleteCategory removed a category that a stored entry names
C22_Witness ==
  /\ call.name = "deleteCategory"
  /\ Did(outcome, "setItem", CATEGORY_STORAGE_KEY)
  /\ \E i \in DOMAIN getEntries(localStorage) :
        /\ getEntries(localStorage)[i].category
             = DEFAULT_EXPENSE_CATEGORIES[1].name
        /\ \A j \in DOMAIN ListCategories(localStorage) :
              ListCategories(localStorage)[j].name
                # DEFAULT_EXPENSE_CATEGORIES[1].name

\* C28: amount invariant on saved entries: every entry handleSave passes to
\* createEntry or updateEntry has a numeric amount that is not negative, and
\* a note has amount 0 and the note category.
C28_SavedAmountNonNegative ==
  (call.name = "handleSave" /\ call.entry # <<>>) =>
    LET e == call.entry[1]
    IN  /\ e.amount.k = "number"
        /\ e.amount.v >= 0
        /\ e.type = "note" => (e.amount = Num(0) /\ e.category = NOTE_CATEGORY)

\* C29: observer consistency: in every state the store's operations reach,
\* the entries list held by App equals listEntries().
C29_ObserverConsistent == appEntries = getEntries(localStorage)

\* the category is among the categories
HasCategory(cats, c) == \E i \in DOMAIN cats : cats[i] = c

\* C30: seeding happens at most once: a listCategories() that finds the
\* categories key present writes nothing and returns what the key holds,
\* again and again; and no operation other than createCategory and
\* importData brings a built-in category that listCategories() lacks back
\* into it.
C30_SeedsAtMostOnce ==
  [][/\ (call'.name = "getCategories"
           /\ localStorage[CATEGORY_STORAGE_KEY].present) =>
          /\ outcome'.trace = <<>>
          /\ localStorage' = localStorage
          /\ outcome'.val = ListCategories(localStorage)
          /\ outcome'.val = ListCategories(localStorage')
     /\ call'.name \notin {"saveCategory", "importData"} =>
          LET before == ListCategories(localStorage)
              after == ListCategories(localStorage')
          IN  \A i \in DOMAIN DEFAULT_EXPENSE_CATEGORIES :
                 HasCategory(after, DEFAULT_EXPENSE_CATEGORIES[i])
                   => HasCategory(before, DEFAULT_EXPENSE_CATEGORIES[i])]_vars

\* a listCategories() read a stored list from which a built-in category had
\* been deleted
C30_Witness ==
  /\ call.name = "getCategories"
  /\ outcome.trace = <<>>
  /\ localStorage[CATEGORY_STORAGE_KEY].present
  /\ Len(outcome.val) >= 1
  /\ ~HasCategory(outcome.val, DEFAULT_EXPENSE_CATEGORIES[1])

\* the amount of an entry as a number (an amount stored as null adds 0)
AmountOf(e) == IF e.amount.k = "number" THEN e.amount.v ELSE 0

\* the sum of f over the positions I of a sequence
RECURSIVE SumOver(_, _)
SumOver(I, f) ==
  IF I = {} THEN 0
  ELSE LET i == CHOOSE j \in I : TRUE
       IN  f[i] + SumOver(I \ {i}, f)

\* the position at which the category first occurs in the entries
FirstIndex(entries, category) ==
  CHOOSE i \in DOMAIN entries :
     /\ entries[i].category = category
     /\ \A j \in 1..(i - 1) : entries[j].category # category

Selected(e, month, tab) ==
  /\ e.type = tab
  /\ parseISO(e.date).valid
  /\ parseISO(e.date).y = month.y
  /\ parseISO(e.date).m = month.m

\* C24: aggregation filter: exactly the entries whose type is the selected
\* one and whose date is in the selected year and month contribute: they
\* are the filtered entries, in their order, the total is the sum of their
\* amounts and every group is the category of one of them.
C24_Filter ==
  stats.mounted =>
    LET sel == {i \in DOMAIN appEntries :
                  Selected(appEntries[i], stats.currentMonth, stats.activeTab)}
    IN  /\ stats.filteredEntries
             = SelectSeq(appEntries,
                 LAMBDA e : Selected(e, stats.currentMonth, stats.activeTab))
        /\ stats.totalAmount
             = Num(SumOver(sel, [i \in DOMAIN appEntries |->
                                   AmountOf(appEntries[i])]))
        /\ \A i \in DOMAIN stats.dataByCategory :
              \E k \in sel :
                 appEntries[k].category = stats.dataByCategory[i].name

\* May 2024 is shown over an expense of May 2024 and expenses of April 2024
\* and of May 2023
C24_Witness ==
  /\ stats.mounted
  /\ stats.currentMonth = Now
  /\ stats.activeTab = "expense"
  /\ Len(stats.filteredEntries) = 1
  /\ \E i \in DOMAIN appEntries : appEntries[i].date = "2024-04-30"
  /\ \E i \in DOMAIN appEntries : appEntries[i].date = "2023-05-10"

\* C25: aggregation order: the groups are in descending order of value, and
\* of two groups of equal value the one whose category occurs first in the
\* filtered entries comes first.
C25_Order ==
  stats.mounted =>
    LET fe == stats.filteredEntries
        g == stats.dataByCategory
    IN  \A i, j \in DOMAIN g :
           i < j =>
             \/ g[i].value.v > g[j].value.v
             \/ /\ g[i].value.v = g[j].value.v
                /\ FirstIndex(fe, g[i].name) < FirstIndex(fe, g[j].name)

\* three groups are shown, the first two of equal value, and the category
\* met first in the entries is not the first group
C25_Witness ==
  /\ stats.mounted
  /\ Len(stats.dataByCategory) >= 2
  /\ stats.dataByCategory[1].value = stats.dataByCategory[2].value
  /\ Len(stats.filteredEntries) = 3
  /\ stats.filteredEntries[1].category # stats.dataByCategory[1].name

\* C26: aggregation colours: the group whose category is the i-th distinct
\* category to occur in the filtered entries (i from 0) has the palette
\* colour i mod the palette's length, wherever the sort puts it.
C26_Colors ==
  stats.mounted =>
    LET fe == stats.filteredEntries
        g == stats.dataByCategory
        rank(name) == Cardinality({fe[k].category : k \in
                                     1..(FirstIndex(fe, name) - 1)})
    IN  \A i \in DOMAIN g :
           g[i].color = COLORS[(rank(g[i].name) % Len(COLORS)) + 1]

\* more groups than colours are shown, the first group is not the first
\* category of the entries, and the eleventh category has the first colour
C26_Witness ==
  /\ stats.mounted
  /\ Len(stats.dataByCategory) > Len(COLORS)
  /\ stats.dataByCategory[1].name # stats.filteredEntries[1].category
  /\ \E i \in DOMAIN stats.dataByCategory :
        /\ stats.dataByCategory[i].name
             = stats.filteredEntries[Len(COLORS) + 1].category
        /\ stats.dataByCategory[i].color = COLORS[1]

\* C27: zero-total guard: whenever the statistics page computes the shares
\* of its groups, over entries saved through the entry form, the total is
\* not zero.
C27_ZeroTotalGuard ==
  (stats.mounted /\ Len(stats.shares) > 0) => stats.totalAmount # Num(0)

====
